---- MODULE Spec2Model ----
(***************************************************************************)
(* A model of minuitwrp/graphics_fbdev.cpp: the framebuffer-device backend *)
(* of the recovery UI (fbdev_init, set_displayed_framebuffer, fbdev_flip,  *)
(* fbdev_blank, fbdev_exit), the kernel framebuffer device it drives, and  *)
(* the painter that draws into the surface the backend hands out.          *)
(***************************************************************************)
EXTENDS Integers, Sequences, FiniteSets, TLC

(***************************************************************************)
(* Unsigned 32-bit arithmetic (__u32).  A value is a pair <<hi, lo>> of    *)
(* 16-bit halves, so that products are computed without leaving the range  *)
(* of the model checker's integers.                                        *)
(***************************************************************************)
Half16 == 256 * 256

ToU32(n) == <<n \div Half16, n % Half16>>

\* The value of a __u32 as a natural number; only for values below 2^31.
FromU32(a) == a[1] * Half16 + a[2]

\* The exact product of two 16-bit values, as <<hi, lo>>.
Mul16(a, b) ==
    LET p0 == (a % 256) * b
        p1 == (a \div 256) * b
        s  == (p0 % Half16) + (p1 % 256) * 256
    IN  <<(p1 \div 256) + (p0 \div Half16) + (s \div Half16), s % Half16>>

\* The exact product of two __u32 values: four 16-bit limbs, least first.
MulWide(a, b) ==
    LET ll == Mul16(a[2], b[2])
        hl == Mul16(a[1], b[2])
        lh == Mul16(a[2], b[1])
        hh == Mul16(a[1], b[1])
        s1 == ll[1] + hl[2] + lh[2]
        s2 == hl[1] + lh[1] + hh[2] + (s1 \div Half16)
    IN  <<ll[2], s1 % Half16, s2 % Half16, hh[1] + (s2 \div Half16)>>

\* The product a C expression of type __u32 yields: the low 32 bits.
MulU32(a, b) ==
    LET w == MulWide(a, b) IN <<w[2], w[1]>>

LeqU32(a, b) == a[1] < b[1] \/ (a[1] = b[1] /\ a[2] <= b[2])

\* The value of a __u32 stored into an int (two's complement).
AbsInt(a) ==
    IF a[1] < 32768 THEN a
    ELSE IF a[2] = 0 THEN <<Half16 - a[1], 0>>
    ELSE <<Half16 - 1 - a[1], Half16 - a[2]>>

NegInt(a) == a[1] >= 32768

(***************************************************************************)
(* Pixel formats (pixelflinger's GGL_PIXEL_FORMAT_* tags).                 *)
(***************************************************************************)
Formats == {"RGB_565", "BGRA_8888", "RGBA_8888", "RGBX_8888"}

\* fbdev_init, RECOVERY_RGB_565: the variable descriptor is rewritten to
\* the canonical 5/6/5 layout before anything reads it.
ForceRGB565(v, line_length) ==
    [v EXCEPT !.blue = [offset |-> 0, length |-> 5],
              !.green = [offset |-> 5, length |-> 6],
              !.red = [offset |-> 11, length |-> 5],
              !.bits_per_pixel = 16,
              !.xres_virtual = line_length \div 2]

\* A normalizer that tests the red offset before the bit depth.
PixelFormatOffsetFirst(v) ==
    IF v.red.offset = 8 THEN "BGRA_8888"
    ELSE IF v.bits_per_pixel = 16 THEN "RGB_565"
    ELSE IF v.red.offset = 0 THEN "RGBA_8888"
    ELSE IF v.red.offset = 24 THEN "RGBX_8888"
    ELSE IF v.red.length = 8 THEN "RGBX_8888"
    ELSE "RGB_565"

\* A normalizer whose 8-bit fallback is the red-offset-0 format.
PixelFormatFallbackRGBA(v) ==
    IF v.bits_per_pixel = 16 THEN "RGB_565"
    ELSE IF v.red.offset = 8 THEN "BGRA_8888"
    ELSE IF v.red.offset = 0 THEN "RGBA_8888"
    ELSE IF v.red.offset = 24 THEN "RGBX_8888"
    ELSE IF v.red.length = 8 THEN "RGBA_8888"
    ELSE "RGB_565"

\* fbdev_init: the format of gr_framebuffer[0], first match wins.
PixelFormat(v) ==
    IF v.bits_per_pixel = 16 THEN "RGB_565"
    ELSE IF v.red.offset = 8 THEN "BGRA_8888"
    ELSE IF v.red.offset = 0 THEN "RGBA_8888"
    ELSE IF v.red.offset = 24 THEN "RGBX_8888"
    ELSE IF v.red.length = 8 THEN "RGBX_8888"
    ELSE "RGB_565"

\* fbdev_init: "check if we can use double buffering", evaluated in __u32.
CanDoubleBuffer(yres, line_length, smem_len) ==
    LeqU32(MulU32(MulU32(yres, line_length), <<0, 2>>), smem_len)

(***************************************************************************)
(* Build configurations: the preprocessor symbols the file tests.          *)
(* TW_MAX_BRIGHTNESS is <<>> when undefined, <<v>> when defined as v.      *)
(***************************************************************************)
MaxBrightnessValues == {255}

AllBuilds ==
    [RECOVERY_BGRA : BOOLEAN,
     RECOVERY_RGB_565 : BOOLEAN,
     TW_NO_SCREEN_BLANK : BOOLEAN,
     TW_BRIGHTNESS_PATH : BOOLEAN,
     TW_MAX_BRIGHTNESS : {<<>>} \cup {<<v>> : v \in MaxBrightnessValues}]

\* The pixel symbols are read by fbdev_init and fbdev_flip only, the TW_
\* symbols by fbdev_blank only.  The session model takes every combination
\* of each group, with none of the other group's symbols defined; of the
\* TW_ group it takes the combinations in which the brightness path and the
\* maximum brightness are defined together or not at all (fbdev_blank on
\* its own is modelled under every combination further down).
Builds ==
    { b \in AllBuilds :
        \/ /\ ~b.RECOVERY_BGRA /\ ~b.RECOVERY_RGB_565
           /\ b.TW_BRIGHTNESS_PATH <=> (b.TW_MAX_BRIGHTNESS # <<>>)
        \/ ~b.TW_NO_SCREEN_BLANK /\ ~b.TW_BRIGHTNESS_PATH
           /\ b.TW_MAX_BRIGHTNESS = <<>> }

(***************************************************************************)
(* The framebuffer device as the kernel presents it: the fixed descriptor  *)
(* (fb_fix_screeninfo), the variable descriptor (fb_var_screeninfo) and    *)
(* the device memory.                                                      *)
(***************************************************************************)
Chan(o, l) == [offset |-> o, length |-> l]

MkDev(xres, yres, line_length, smem_len, bpp, red, green, blue) ==
    [fi |-> [line_length |-> line_length, smem_len |-> smem_len],
     vi |-> [xres |-> xres, yres |-> yres,
             xres_virtual |-> xres, yres_virtual |-> yres, yoffset |-> 0,
             bits_per_pixel |-> bpp,
             red |-> red, green |-> green, blue |-> blue]]

\* Devices of the session model: exactly two frames of memory; the same
\* panel with exactly one frame; a 16-bit panel of two rows whose frame is
\* not a multiple of four bytes, with two frames and a spare byte; and a
\* device that reports less memory than one frame.
Devices ==
    { MkDev(1, 1, 4, 8, 32, Chan(0, 8), Chan(8, 8), Chan(16, 8)),
      MkDev(1, 1, 4, 4, 32, Chan(8, 8), Chan(16, 8), Chan(24, 8)),
      MkDev(3, 1, 6, 13, 16, Chan(11, 5), Chan(5, 6), Chan(0, 5)),
      MkDev(1, 2, 4, 6, 32, Chan(16, 8), Chan(8, 8), Chan(0, 8)) }

Zeros(n) == [i \in 1..n |-> 0]

(***************************************************************************)
(* Pointers: NULL, an offset into the mapping of the device memory, or the *)
(* address of a heap allocation.                                           *)
(***************************************************************************)
NULL == [seg |-> "null", off |-> 0]
FbPtr(off) == [seg |-> "fb", off |-> off]
HeapPtr(a) == [seg |-> "heap", off |-> a]

\* A GRSurface of static storage: all fields zero.
ZeroSurface ==
    [width |-> 0, height |-> 0, row_bytes |-> 0, pixel_bytes |-> 0,
     data |-> NULL, format |-> "NONE"]

\* Bounds of the model.
MaxCommits == 2
MaxPaint == 1
HeapSlots == 3

HeapAddrs == 1..HeapSlots

VARIABLES
    build,            \* the preprocessor configuration the file was built with
    dev,              \* the device's descriptors, as the kernel holds them
    fbmem,            \* the device memory (smem_len bytes)
    panel,            \* display power: FBIOBLANK state and backlight level
    gr_framebuffer,   \* static GRSurface gr_framebuffer[2]
    double_buffered,  \* static bool double_buffered
    gr_draw,          \* static GRSurface* gr_draw
    displayed_buffer, \* static int displayed_buffer
    vi,               \* static fb_var_screeninfo vi
    fb_fd,            \* static int fb_fd
    smem_len,         \* static __u32 smem_len
    openFds,          \* file descriptors the process holds open
    mapped,           \* whether the mapping of the device memory exists
    heap,             \* live heap allocations: address -> size in bytes
    drawDesc,         \* the GRSurface stored in the allocation gr_draw names
    drawData,         \* the bytes of the allocation gr_draw->data names
    pc,               \* lifecycle of the caller: closed, open, crashed
    ret,              \* what the last fbdev_init / fbdev_flip returned
    log,              \* the steps of the last call, in order
    hist,             \* history of the run (commits, page-flip outcomes, ...)
    probe             \* input and result of the descriptor-probing function

vars == <<build, dev, fbmem, panel, gr_framebuffer, double_buffered, gr_draw,
          displayed_buffer, vi, fb_fd, smem_len, openFds, mapped, heap,
          drawDesc, drawData, pc, ret, log, hist, probe>>

devVars == <<dev, fbmem, panel>>
procVars == <<gr_framebuffer, double_buffered, gr_draw, displayed_buffer, vi,
              fb_fd, smem_len>>
resVars == <<openFds, mapped, heap, drawDesc, drawData>>

NoProbe == [phase |-> "idle"]

\* History of the run: commits and page-flip outcomes of the open session
\* (whether one failed, whether the last one succeeded, the slot it asked for),
\* how many sessions were opened (0, 1, or 2 for "more than one"), the
\* buffering mode of the first one, whether the device was reconfigured
\* since, and the surface and pixel memory the last fbdev_init handed out.
NoHistory ==
    [commits |-> 0, putFailed |-> FALSE, putLastOk |-> TRUE, putLastN |-> 0,
     sessions |-> 0, devChanged |-> FALSE, firstMode |-> "none",
     handle |-> NULL, pixels |-> NULL]

NoValue == [seg |-> "none", off |-> 0]

\* Device memory holds whatever was shown last before the process starts.
Stale(n) == [i \in 1..n |-> 170]

\* The state of a freshly started process on device d, built as b.
InitWith(b, d) ==
    /\ build = b
    /\ dev = d
    /\ fbmem = Stale(d.fi.smem_len)
    /\ panel = [blanked |-> FALSE, backlight |-> 255]
    /\ gr_framebuffer = <<ZeroSurface, ZeroSurface>>
    /\ double_buffered = FALSE
    /\ gr_draw = NULL
    /\ displayed_buffer = 0
    /\ vi = [xres |-> 0, yres |-> 0, xres_virtual |-> 0, yres_virtual |-> 0,
             yoffset |-> 0, bits_per_pixel |-> 0,
             red |-> Chan(0, 0), green |-> Chan(0, 0), blue |-> Chan(0, 0)]
    /\ fb_fd = -1
    /\ smem_len = 0
    /\ openFds = {}
    /\ mapped = FALSE
    /\ heap = <<>>
    /\ drawDesc = ZeroSurface
    /\ drawData = <<>>
    /\ pc = "closed"
    /\ ret = NoValue
    /\ log = <<>>
    /\ hist = NoHistory

Init ==
    /\ \E b \in Builds, d \in Devices : InitWith(b, d)
    /\ probe = NoProbe

(***************************************************************************)
(* Helpers: memory, heap, surfaces.                                        *)
(***************************************************************************)
\* memcpy/memset into the mapping at offset off; bytes past the end of the
\* mapping do not land in it.
WriteFb(mem, off, bytes) ==
    [i \in 1..Len(mem) |->
        IF off < i /\ i <= off + Len(bytes) THEN bytes[i - off] ELSE mem[i]]

\* malloc: the lowest free address.
Malloc(h) == CHOOSE a \in HeapAddrs \ DOMAIN h :
                 \A b \in HeapAddrs \ DOMAIN h : a <= b

Alloc(h, a, n) == [x \in DOMAIN h \cup {a} |-> IF x = a THEN n ELSE h[x]]

Free(h, a) == [x \in DOMAIN h \ {a} |-> h[x]]

FrameBytes(s) == s.height * s.row_bytes

\* fbdev_init: gr_framebuffer[0], filled from the descriptors.
Surface0(v, fi) ==
    [width |-> v.xres, height |-> v.yres, row_bytes |-> fi.line_length,
     pixel_bytes |-> v.bits_per_pixel \div 8, data |-> FbPtr(0),
     format |-> PixelFormat(v)]

\* fbdev_init: gr_framebuffer[1], one frame further into the mapping.
Surface1(s0) == [s0 EXCEPT !.data = FbPtr(s0.data.off + FrameBytes(s0))]

\* The front-buffer slot the display controller scans out.
DevSlot(d) == d.vi.yoffset \div d.vi.yres

(***************************************************************************)
(* set_displayed_framebuffer(n); ok is the outcome of FBIOPUT_VSCREENINFO. *)
(* Yields the new vi, device descriptors and displayed_buffer, and the     *)
(* steps taken.                                                            *)
(***************************************************************************)
\* The call itself, as a step of the caller.
EvSelect(n) == [op |-> "set_displayed_framebuffer", n |-> n]

\* A variant that records the slot only when the device accepted it.
SetDisplayedFramebufferIfOk(n, dbuf, fb, v, d, shown, ok) ==
    IF n > 1 \/ ~dbuf
    THEN [vi |-> v, dev |-> d, displayed |-> shown, ev |-> <<EvSelect(n)>>]
    ELSE LET v2 == [v EXCEPT !.yres_virtual = fb[1].height * 2,
                             !.yoffset = n * fb[1].height,
                             !.bits_per_pixel = fb[1].pixel_bytes * 8]
         IN  [vi |-> v2,
              dev |-> IF ok THEN [d EXCEPT !.vi = v2] ELSE d,
              displayed |-> IF ok THEN n ELSE shown,
              ev |-> <<EvSelect(n),
                       [op |-> "FBIOPUT_VSCREENINFO", n |-> n, ok |-> ok]>>]

SetDisplayedFramebuffer(n, dbuf, fb, v, d, shown, ok) ==
    IF n > 1 \/ ~dbuf
    THEN [vi |-> v, dev |-> d, displayed |-> shown, ev |-> <<EvSelect(n)>>]
    ELSE LET v2 == [v EXCEPT !.yres_virtual = fb[1].height * 2,
                             !.yoffset = n * fb[1].height,
                             !.bits_per_pixel = fb[1].pixel_bytes * 8]
         IN  [vi |-> v2,
              dev |-> IF ok THEN [d EXCEPT !.vi = v2] ELSE d,
              displayed |-> n,
              ev |-> <<EvSelect(n),
                       [op |-> "FBIOPUT_VSCREENINFO", n |-> n, ok |-> ok]>>]

(***************************************************************************)
(* fbdev_blank(blank); ok is the outcome of opening the brightness file or *)
(* of the FBIOBLANK call, whichever the build uses.                        *)
(***************************************************************************)
RECURSIVE Digits(_)
Digits(v) == IF v < 10 THEN <<v>> ELSE Append(Digits(v \div 10), v % 10)

\* snprintf(brightness, 4, "%03d", v): at least three digits, zero padded,
\* cut to the three characters the buffer holds.
Fmt03(v) ==
    LET ds == Digits(v)
        padded == IF Len(ds) >= 3 THEN ds ELSE Zeros(3 - Len(ds)) \o ds
    IN  SubSeq(padded, 1, 3)

\* The level the backlight driver reads from the three characters written.
ParseLevel(ds) == ds[1] * 100 + ds[2] * 10 + ds[3]

UsesBrightness(b) ==
    b.TW_NO_SCREEN_BLANK /\ b.TW_BRIGHTNESS_PATH /\ b.TW_MAX_BRIGHTNESS # <<>>

\* A blank that falls back to the device call whenever the brightness file
\* is not fully configured.
UsesBlankIoctlAlways(b) == ~UsesBrightness(b)

UsesBlankIoctl(b) == ~UsesBrightness(b) /\ ~b.TW_NO_SCREEN_BLANK

EvBlank(blank) == [op |-> "fbdev_blank", blank |-> blank]

FbdevBlank(b, blank, pnl, ok) ==
    IF UsesBrightness(b)
    THEN IF ~ok
         THEN [panel |-> pnl,
               ev |-> <<EvBlank(blank), [op |-> "open_backlight", ok |-> FALSE]>>]
         ELSE LET text == IF blank THEN <<0, 0, 0>>
                          ELSE Fmt03(b.TW_MAX_BRIGHTNESS[1] \div 2)
              IN  [panel |-> [pnl EXCEPT !.backlight = ParseLevel(text)],
                   ev |-> <<EvBlank(blank),
                            [op |-> "write_backlight", blank |-> blank,
                             text |-> text]>>]
    ELSE IF UsesBlankIoctl(b)
    THEN [panel |-> IF ok THEN [pnl EXCEPT !.blanked = blank] ELSE pnl,
          ev |-> <<EvBlank(blank),
                   [op |-> "FBIOBLANK", blank |-> blank, ok |-> ok]>>]
    ELSE [panel |-> pnl, ev |-> <<EvBlank(blank)>>]

(***************************************************************************)
(* fbdev_init.  One action per way the call can end; each is the whole     *)
(* call.  The caller opens a session only when none is open.               *)
(***************************************************************************)
\* open() hands out the lowest descriptor above stdin/stdout/stderr.
NewFd == 3

\* vi after FBIOGET_VSCREENINFO and the RECOVERY_RGB_565 rewrite.
ProbedVi ==
    IF build.RECOVERY_RGB_565
    THEN ForceRGB565(dev.vi, dev.fi.line_length)
    ELSE dev.vi

InitFb0 == Surface0(ProbedVi, dev.fi)

\* memset(gr_framebuffer[0].data, 0, height * row_bytes) runs past the end
\* of the mapping when the device reports less memory than one frame.
InitOverrun == FrameBytes(InitFb0) > dev.fi.smem_len

\* Whether this call selects double buffering.
InitDouble ==
    CanDoubleBuffer(ToU32(ProbedVi.yres), ToU32(dev.fi.line_length),
                    ToU32(dev.fi.smem_len))

EvInit == [op |-> "fbdev_init"]
EvOpen(ok) == [op |-> "open", ok |-> ok]
EvClose == [op |-> "close"]
EvMmap(ok) == [op |-> "mmap", ok |-> ok]
EvMunmap == [op |-> "munmap"]
EvMalloc(what, ok) == [op |-> "malloc", what |-> what, ok |-> ok]
EvFree(what) == [op |-> "free", what |-> what]
EvMemset(seg, off, n, room) ==
    [op |-> "memset", seg |-> seg, off |-> off, n |-> n, room |-> room]

\* The steps of fbdev_init up to and including the zeroing of slot 0.
InitPrefix ==
    <<EvInit, EvOpen(TRUE), EvMmap(TRUE),
      EvMemset("fb", 0, dev.fi.smem_len, dev.fi.smem_len),
      EvMemset("fb", 0, FrameBytes(InitFb0), dev.fi.smem_len)>>

\* A drawing surface left as malloc returned it.
InitDrawBytesUnset(n) == Stale(n)

\* The bytes of the drawing surface when fbdev_init returns it:
\* memset(gr_draw->data, 0, height * row_bytes).
InitDrawBytes(n) == Zeros(n)

\* What the failure paths leave of the resources the call acquired.
\* A descriptor read or the mapping fails: close(fd).
OnProbeFailure(fd) == [openFds |-> openFds \ {fd}]

\* The descriptor allocation fails: close(fd), munmap.
OnDescFailure(fd) == [openFds |-> openFds \ {fd}, mapped |-> FALSE]

\* A pixel-allocation failure path that forgets free(gr_draw).
OnDataFailureLeak(fd, h, a) ==
    [openFds |-> openFds \ {fd}, mapped |-> FALSE, heap |-> h]

\* The pixel allocation fails: close(fd), free(gr_draw), munmap.
OnDataFailure(fd, h, a) ==
    [openFds |-> openFds \ {fd}, mapped |-> FALSE, heap |-> Free(h, a)]

InitFailOpen ==
    /\ pc = "closed"
    /\ log' = <<EvInit, EvOpen(FALSE)>>
    /\ ret' = NULL
    /\ UNCHANGED <<build, devVars, procVars, resVars, pc, hist, probe>>

\* FBIOGET_FSCREENINFO or FBIOGET_VSCREENINFO fails.
InitFailIoctl(which) ==
    /\ pc = "closed"
    /\ log' = <<EvInit, EvOpen(TRUE), [op |-> which, ok |-> FALSE], EvClose>>
    /\ ret' = NULL
    /\ openFds' = OnProbeFailure(NewFd).openFds
    /\ UNCHANGED <<build, devVars, procVars, mapped, heap, drawDesc, drawData,
                   pc, hist, probe>>

InitFailMmap ==
    /\ pc = "closed"
    /\ vi' = dev.vi
    /\ log' = <<EvInit, EvOpen(TRUE), EvMmap(FALSE), EvClose>>
    /\ ret' = NULL
    /\ openFds' = OnProbeFailure(NewFd).openFds
    /\ UNCHANGED <<build, devVars, gr_framebuffer, double_buffered, gr_draw,
                   displayed_buffer, fb_fd, smem_len, mapped, heap, drawDesc,
                   drawData, pc, hist, probe>>

\* malloc(sizeof(GRSurface)) fails.
InitFailDesc ==
    /\ pc = "closed"
    /\ vi' = ProbedVi
    /\ fbmem' = Zeros(dev.fi.smem_len)
    /\ gr_framebuffer' = <<InitFb0, gr_framebuffer[2]>>
    /\ gr_draw' = NULL
    /\ LET c == OnDescFailure(NewFd)
       IN  /\ openFds' = c.openFds
           /\ mapped' = c.mapped
    /\ log' = InitPrefix \o
              <<EvMalloc("GRSurface", FALSE), EvClose, EvMunmap>>
    /\ ret' = NULL
    /\ UNCHANGED <<build, dev, panel, double_buffered, displayed_buffer,
                   fb_fd, smem_len, heap, drawDesc, drawData, pc, hist, probe>>

\* malloc(height * row_bytes) fails; gr_draw keeps the address of the
\* descriptor that was freed.
InitFailData ==
    /\ pc = "closed"
    /\ HeapAddrs \ DOMAIN heap # {}
    /\ vi' = ProbedVi
    /\ fbmem' = Zeros(dev.fi.smem_len)
    /\ gr_framebuffer' = <<InitFb0, gr_framebuffer[2]>>
    /\ LET a == Malloc(heap)
           h == Alloc(heap, a, [what |-> "GRSurface", size |-> 0])
           c == OnDataFailure(NewFd, h, a)
       IN  /\ gr_draw' = HeapPtr(a)
           /\ openFds' = c.openFds
           /\ mapped' = c.mapped
           /\ heap' = c.heap
    /\ log' = InitPrefix \o
              <<EvMalloc("GRSurface", TRUE), EvMalloc("pixels", FALSE),
                EvClose, EvFree("GRSurface"), EvMunmap>>
    /\ ret' = NULL
    /\ UNCHANGED <<build, dev, panel, double_buffered, displayed_buffer,
                   fb_fd, smem_len, drawDesc, drawData, pc, hist, probe>>

\* The out-of-bounds memset faults.
InitCrash ==
    /\ pc = "closed"
    /\ InitOverrun
    /\ fbmem' = Zeros(dev.fi.smem_len)
    /\ pc' = "crashed"
    /\ log' = InitPrefix
    /\ ret' = NoValue
    /\ UNCHANGED <<build, dev, panel, procVars, resVars, hist, probe>>

\* An init that unblanks first and blanks last.
InitBlankArgsUnblankFirst == <<FALSE, TRUE>>

\* The arguments of the two fbdev_blank calls that end fbdev_init.
InitBlankArgs == <<TRUE, FALSE>>

\* The call succeeds.  putOk, b1Ok, b2Ok: the outcomes of the system call
\* made by set_displayed_framebuffer(0), fbdev_blank(true), fbdev_blank(false).
InitOk(putOk, b1Ok, b2Ok) ==
    /\ pc = "closed"
    /\ Cardinality(HeapAddrs \ DOMAIN heap) >= 2
    /\ LET fb0 == InitFb0
           n == FrameBytes(fb0)
           a1 == Malloc(heap)
           h1 == Alloc(heap, a1, [what |-> "GRSurface", size |-> 0])
           a2 == Malloc(h1)
           h2 == Alloc(h1, a2, [what |-> "pixels", size |-> n])
           dbuf == InitDouble
           fb == <<fb0, IF dbuf THEN Surface1(fb0) ELSE gr_framebuffer[2]>>
           sd == SetDisplayedFramebuffer(0, dbuf, fb, ProbedVi, dev,
                                         displayed_buffer, putOk)
           bl1 == FbdevBlank(build, InitBlankArgs[1], panel, b1Ok)
           bl2 == FbdevBlank(build, InitBlankArgs[2], bl1.panel, b2Ok)
       IN  /\ openFds' = openFds \cup {NewFd}
           /\ mapped' = TRUE
           /\ fbmem' = Zeros(dev.fi.smem_len)
           /\ gr_framebuffer' = fb
           /\ heap' = h2
           /\ gr_draw' = HeapPtr(a1)
           /\ drawDesc' = [fb0 EXCEPT !.data = HeapPtr(a2)]
           /\ drawData' = InitDrawBytes(n)
           /\ double_buffered' = dbuf
           /\ fb_fd' = NewFd
           /\ vi' = sd.vi
           /\ dev' = sd.dev
           /\ displayed_buffer' = sd.displayed
           /\ panel' = bl2.panel
           /\ smem_len' = dev.fi.smem_len
           /\ ret' = HeapPtr(a1)
           /\ log' = InitPrefix \o
                     <<EvMalloc("GRSurface", TRUE), EvMalloc("pixels", TRUE),
                       EvMemset("heap", 0, n, n)>> \o
                     sd.ev \o bl1.ev \o bl2.ev
           /\ hist' = [hist EXCEPT
                         !.commits = 0,
                         !.putFailed = dbuf /\ ~putOk,
                         !.putLastOk = ~dbuf \/ putOk,
                         !.putLastN = 0,
                         !.sessions = IF @ = 0 THEN 1 ELSE 2,
                         !.firstMode = IF hist.sessions = 0
                                       THEN (IF dbuf THEN "double" ELSE "single")
                                       ELSE @,
                         !.handle = HeapPtr(a1),
                         !.pixels = HeapPtr(a2)]
    /\ pc' = "open"
    /\ UNCHANGED <<build, probe>>

(***************************************************************************)
(* fbdev_flip.                                                             *)
(***************************************************************************)
\* What an out-of-bounds read may find.
Garbage == {0, 170}

\* RECOVERY_BGRA: for (idx = 0; idx < size; idx += 4) exchange data[idx] and
\* data[idx + 2].  g is what data[idx + 2] reads when it lies past the end.
SwapChannels(data, g) ==
    [i \in 1..Len(data) |->
        IF (i - 1) % 4 = 0
        THEN (IF i + 2 <= Len(data) THEN data[i + 2] ELSE g)
        ELSE IF (i - 1) % 4 = 2 THEN data[i - 2]
        ELSE data[i]]

\* The highest index the swap loop touches in a buffer of n bytes.
SwapReach(n) == 4 * ((n - 1) \div 4) + 2

\* A commit that selects the slot already recorded as displayed.
FlipTargetSame(shown) == shown

\* The slot a double-buffered commit copies into and then selects.
FlipTarget(shown) == 1 - shown

\* A commit that hands back the front buffer instead.
FlipResultFront(p) == FbPtr(0)

\* The surface fbdev_flip returns.
FlipResult(p) == p

FlipSlot == IF double_buffered THEN FlipTarget(displayed_buffer) ELSE 0

FlipSwaps == double_buffered /\ build.RECOVERY_BGRA

\* The swap loop or the memcpy leaves its buffer.
FlipOverrun ==
    LET n == FrameBytes(drawDesc)
    IN  \/ FlipSwaps /\ SwapReach(n) >= n
        \/ gr_framebuffer[FlipSlot + 1].data.off + n > Len(fbmem)

FlipSteps(n, slot) ==
    <<[op |-> "fbdev_flip", drawn |-> drawData,
       chained |-> log # <<>> /\ log[1].op = "fbdev_flip",
       before |-> IF log # <<>> /\ log[1].op = "fbdev_flip"
                  THEN log[1].drawn ELSE <<>>]>> \o
    (IF FlipSwaps
     THEN <<[op |-> "swap", reach |-> SwapReach(n), size |-> n]>>
     ELSE <<>>) \o
    <<[op |-> "memcpy", slot |-> slot, shown |-> displayed_buffer,
       devSlot |-> DevSlot(dev), synced |-> hist.putLastOk,
       lastN |-> hist.putLastN, n |-> n,
       srcSize |-> heap[drawDesc.data.off].size,
       dstOff |-> gr_framebuffer[slot + 1].data.off,
       mapLen |-> Len(fbmem)]>>

Flip(putOk, g) ==
    /\ pc = "open"
    /\ hist.commits < MaxCommits
    /\ LET n == FrameBytes(drawDesc)
           slot == FlipSlot
           bytes == IF FlipSwaps THEN SwapChannels(drawData, g) ELSE drawData
           sd == SetDisplayedFramebuffer(slot, double_buffered, gr_framebuffer,
                                         vi, dev, displayed_buffer, putOk)
       IN  /\ drawData' = bytes
           /\ fbmem' = WriteFb(fbmem, gr_framebuffer[slot + 1].data.off, bytes)
           /\ vi' = sd.vi
           /\ dev' = sd.dev
           /\ displayed_buffer' = sd.displayed
           /\ ret' = FlipResult(gr_draw)
           /\ log' = FlipSteps(n, slot) \o sd.ev
           /\ hist' = [hist EXCEPT
                         !.commits = @ + 1,
                         !.putFailed = @ \/ (double_buffered /\ ~putOk),
                         !.putLastOk = ~double_buffered \/ putOk,
                         !.putLastN = IF double_buffered THEN slot ELSE @]
    /\ UNCHANGED <<build, panel, gr_framebuffer, double_buffered, gr_draw,
                   fb_fd, smem_len, openFds, mapped, heap, drawDesc, pc, probe>>

\* An out-of-bounds access of the commit faults.
FlipCrash ==
    /\ pc = "open"
    /\ FlipOverrun
    /\ pc' = "crashed"
    /\ log' = FlipSteps(FrameBytes(drawDesc), FlipSlot)
    /\ ret' = NoValue
    /\ UNCHANGED <<build, devVars, procVars, resVars, hist, probe>>

(***************************************************************************)
(* fbdev_blank, fbdev_exit, and the environment: the painter and a         *)
(* reconfiguration of the device between two sessions.                     *)
(***************************************************************************)
Blank(blank, ok) ==
    /\ pc = "open"
    /\ LET bl == FbdevBlank(build, blank, panel, ok)
       IN  /\ panel' = bl.panel
           /\ log' = bl.ev
    /\ UNCHANGED <<build, dev, fbmem, procVars, resVars, pc, ret, hist, probe>>

\* A shutdown that undoes fbdev_init's acquisitions last to first.
ExitStepsReversed ==
    <<[op |-> "fbdev_exit"]>> \o
    (IF gr_draw # NULL THEN <<EvFree("pixels"), EvFree("GRSurface")>>
     ELSE <<>>) \o
    <<EvMunmap, EvClose>>

\* The order in which fbdev_exit lets go of what the session holds.
ExitSteps ==
    <<[op |-> "fbdev_exit"], EvClose>> \o
    (IF gr_draw # NULL THEN <<EvFree("pixels"), EvFree("GRSurface")>>
     ELSE <<>>) \o
    <<EvMunmap>>

Exit ==
    /\ pc = "open"
    /\ openFds' = openFds \ {fb_fd}
    /\ fb_fd' = -1
    /\ heap' = IF gr_draw # NULL
               THEN Free(Free(heap, drawDesc.data.off), gr_draw.off)
               ELSE heap
    /\ drawDesc' = ZeroSurface
    /\ drawData' = <<>>
    /\ gr_draw' = NULL
    /\ mapped' = FALSE
    /\ pc' = "closed"
    /\ log' = ExitSteps
    /\ hist' = [hist EXCEPT !.commits = 0, !.putFailed = FALSE,
                            !.putLastOk = TRUE, !.putLastN = 0]
    /\ UNCHANGED <<build, devVars, gr_framebuffer, double_buffered,
                   displayed_buffer, vi, smem_len, ret, probe>>

\* What the painter draws: frame p, with a different value in each byte of
\* a four-byte pixel.
Pattern(p, n) == [i \in 1..n |-> 16 * p + ((i - 1) % 4)]

Paint(p) ==
    /\ pc = "open"
    /\ drawData' = Pattern(p, Len(drawData))
    /\ log' = <<[op |-> "paint"]>>
    /\ UNCHANGED <<build, devVars, procVars, openFds, mapped, heap, drawDesc,
                   pc, ret, hist, probe>>

\* Between two sessions the device is reconfigured: the same resolution, a
\* different amount of memory.
DevChange(d) ==
    /\ pc = "closed"
    /\ hist.sessions >= 1
    /\ ~hist.devChanged
    /\ d.vi.xres = dev.vi.xres /\ d.vi.yres = dev.vi.yres
    /\ d.fi.smem_len # dev.fi.smem_len
    /\ dev' = d
    /\ fbmem' = Stale(d.fi.smem_len)
    /\ hist' = [hist EXCEPT !.devChanged = TRUE]
    /\ log' = <<[op |-> "reconfigure"]>>
    /\ UNCHANGED <<build, panel, procVars, resVars, pc, ret, probe>>

\* The outcomes of a system call: it succeeds or fails when it is made;
\* when the call is not made there is nothing to choose.
Outcomes(made) == IF made THEN BOOLEAN ELSE {TRUE}

BlankOutcomes == Outcomes(UsesBrightness(build) \/ UsesBlankIoctl(build))

FlipGarbage ==
    IF pc = "open" /\ FlipSwaps /\ SwapReach(FrameBytes(drawDesc)) >= FrameBytes(drawDesc)
    THEN Garbage ELSE {0}

Next ==
    \/ InitFailOpen
    \/ \E which \in {"FBIOGET_FSCREENINFO", "FBIOGET_VSCREENINFO"} :
           InitFailIoctl(which)
    \/ InitFailMmap
    \/ InitFailDesc
    \/ InitFailData
    \/ InitCrash
    \/ \E putOk \in Outcomes(InitDouble), b1Ok, b2Ok \in BlankOutcomes :
           InitOk(putOk, b1Ok, b2Ok)
    \/ \E putOk \in Outcomes(double_buffered), g \in FlipGarbage :
           Flip(putOk, g)
    \/ FlipCrash
    \/ \E blank \in BOOLEAN, ok \in BlankOutcomes : Blank(blank, ok)
    \/ Exit
    \/ \E p \in 1..MaxPaint : Paint(p)
    \/ \E d \in Devices : DevChange(d)

Spec == Init /\ [][Next]_vars

(***************************************************************************)
(* The probing part of fbdev_init as a function of what the device         *)
(* reports, over the whole range of __u32: the pixel format, the buffering *)
(* mode, and whether the call gets through with every access in bounds.    *)
(***************************************************************************)
U32Max == <<Half16 - 1, Half16 - 1>>

Resolutions == {<<0, 1>>, <<0, 2>>, <<0, 3>>, <<0, 1080>>, <<0, 32768>>,
                <<1, 0>>, U32Max}

Strides == {<<0, 1>>, <<0, 4>>, <<0, 6>>, <<0, 4320>>, <<0, 32768>>,
            <<1, 0>>, U32Max}

MemoryLengths == {<<0, 2>>, <<0, 8>>, <<0, 12>>, <<142, 24576>>,
                  <<32768, 0>>, U32Max}

ProbeVi(bpp, red, green, blue) ==
    [xres |-> 1, yres |-> 1, xres_virtual |-> 1, yres_virtual |-> 1,
     yoffset |-> 0, bits_per_pixel |-> bpp,
     red |-> red, green |-> green, blue |-> blue]

ProbeInput(rgb565, yres, line_length, len, v) ==
    [phase |-> "in", rgb565 |-> rgb565, yres |-> yres,
     line_length |-> line_length, smem_len |-> len, vi |-> v,
     format |-> "NONE", double |-> FALSE, inBounds |-> FALSE]

GeometryInputs ==
    { ProbeInput(FALSE, y, l, m,
                 ProbeVi(32, Chan(0, 8), Chan(8, 8), Chan(16, 8))) :
        y \in Resolutions, l \in Strides, m \in MemoryLengths }

FormatInputs ==
    { ProbeInput(f, <<0, 1>>, <<0, 4>>, <<0, 8>>,
                 ProbeVi(bpp, Chan(ro, rl), Chan(go, 8), Chan(bo, 8))) :
        f \in BOOLEAN, bpp \in {16, 24, 32}, ro \in {0, 8, 11, 16, 24},
        rl \in {5, 8}, go \in {5, 8}, bo \in {0, 16} }

\* The variable descriptor the format is read from.
EffectiveVi(in) ==
    IF in.rgb565 THEN ForceRGB565(in.vi, FromU32(in.line_length)) ELSE in.vi

\* gr_framebuffer[0].height * gr_framebuffer[0].row_bytes, both int: the
\* product is representable, not negative, and no larger than the mapping,
\* so that the memsets and the allocation get the size of one frame.
FrameInBounds(yres, line_length, len) ==
    LET w == MulWide(AbsInt(yres), AbsInt(line_length))
        zero == w = <<0, 0, 0, 0>>
    IN  /\ w[3] = 0 /\ w[4] = 0 /\ w[2] < 32768
        /\ zero \/ (NegInt(yres) = NegInt(line_length))
        /\ LeqU32(<<w[2], w[1]>>, len)

ProbeApply ==
    /\ probe.phase = "in"
    /\ probe' = [probe EXCEPT
                   !.phase = "out",
                   !.format = PixelFormat(EffectiveVi(probe)),
                   !.double = CanDoubleBuffer(probe.yres, probe.line_length,
                                              probe.smem_len),
                   !.inBounds = FrameInBounds(probe.yres, probe.line_length,
                                              probe.smem_len)]
    /\ UNCHANGED <<build, devVars, procVars, resVars, pc, ret, log, hist>>

InitProbe ==
    /\ InitWith(CHOOSE b \in Builds : TRUE, CHOOSE d \in Devices : TRUE)
    /\ probe \in GeometryInputs \cup FormatInputs

SpecProbe == InitProbe /\ [][ProbeApply]_vars

(***************************************************************************)
(* fbdev_blank as a function of the build configuration, the argument, the *)
(* state of the panel and the outcome of the system call it makes.         *)
(***************************************************************************)
BlankMaxValues == {1, 255, 1023, 4095}

\* fbdev_blank reads the TW_ symbols only.
BlankBuilds ==
    [RECOVERY_BGRA : {FALSE},
     RECOVERY_RGB_565 : {FALSE},
     TW_NO_SCREEN_BLANK : BOOLEAN,
     TW_BRIGHTNESS_PATH : BOOLEAN,
     TW_MAX_BRIGHTNESS : {<<>>} \cup {<<v>> : v \in BlankMaxValues}]

Panels == { [blanked |-> FALSE, backlight |-> 255],
            [blanked |-> TRUE, backlight |-> 0] }

BlankInputs ==
    [phase : {"in"}, build : BlankBuilds, blank : BOOLEAN, ok : BOOLEAN,
     before : Panels, panel : {[blanked |-> FALSE, backlight |-> 255]},
     ev : {<<>>}]

BlankApply ==
    /\ probe.phase = "in"
    /\ LET bl == FbdevBlank(probe.build, probe.blank, probe.before, probe.ok)
       IN  probe' = [probe EXCEPT !.phase = "out", !.panel = bl.panel,
                                  !.ev = bl.ev]
    /\ UNCHANGED <<build, devVars, procVars, resVars, pc, ret, log, hist>>

InitBlank ==
    /\ InitWith(CHOOSE b \in Builds : TRUE, CHOOSE d \in Devices : TRUE)
    /\ probe \in BlankInputs

SpecBlank == InitBlank /\ [][BlankApply]_vars

(***************************************************************************)
(* Properties.                                                             *)
(***************************************************************************)
\* The last call was the named one.
Called(name) == log # <<>> /\ log[1].op = name

StepsOf(name) == {i \in DOMAIN log : log[i].op = name}

\* The memcpy of the last fbdev_flip.
Copy == log[CHOOSE i \in StepsOf("memcpy") : TRUE]

InitSucceeded == Called("fbdev_init") /\ pc = "open"
InitFailed == Called("fbdev_init") /\ pc = "closed"
Committed == Called("fbdev_flip") /\ pc = "open"

\* C1: in a double-buffered session in which no page-flip call has failed,
\* the recorded visible slot is 0 after init and k mod 2 after the k-th
\* commit, so consecutive commits alternate it 1, 0, 1, 0, ...
C1_Alternation ==
    (pc = "open" /\ double_buffered /\ ~hist.putFailed)
        => displayed_buffer = hist.commits % 2

C1_Witness ==
    /\ Committed /\ double_buffered /\ ~hist.putFailed
    /\ hist.commits = 2 /\ displayed_buffer = 0

TwoFramesFit(yres, line_length, len) ==
    LET w == MulWide(yres, line_length)
        half == <<len[1] \div 2, (len[1] % 2) * 32768 + (len[2] \div 2)>>
    IN  w[3] = 0 /\ w[4] = 0 /\ LeqU32(<<w[2], w[1]>>, half)

\* C3 as claimed: for every reported resolution, stride and memory length,
\* an init that gets through selects double buffering exactly when
\* height * stride * 2 <= total_mapped_length.
C3_DoubleIffTwoFramesFit ==
    (probe.phase = "out" /\ probe.inBounds)
        => (probe.double <=>
                TwoFramesFit(probe.yres, probe.line_length, probe.smem_len))

\* C4 as claimed: every commit copies exactly height * stride bytes, reads
\* only inside the drawing surface's allocation, writes only inside the
\* targeted slot, which lies inside the mapping; in double-buffer mode the
\* two slots are disjoint.
C4_CommitInBounds ==
    Called("fbdev_flip")
        => /\ Copy.n = FrameBytes(drawDesc)
           /\ Copy.n <= Copy.srcSize
           /\ \A i \in StepsOf("swap") : log[i].reach < log[i].size
           /\ Copy.dstOff + Copy.n <= Copy.mapLen
           /\ double_buffered =>
                  /\ gr_framebuffer[1].data.off + Copy.n
                         <= gr_framebuffer[2].data.off
                  /\ gr_framebuffer[2].data.off + Copy.n <= Copy.mapLen

\* C5: when init fails, everything the call acquired has been released when
\* it returns (no open descriptor, no mapping, no live allocation), and it
\* returns NULL.
C5_FailedInitReleasesAll ==
    InitFailed
        => /\ openFds = {}
           /\ ~mapped
           /\ DOMAIN heap = {}
           /\ ret = NULL

C5_Witness ==
    /\ InitFailed
    /\ \E i \in StepsOf("malloc") : log[i].what = "pixels" /\ ~log[i].ok
    /\ \E i \in StepsOf("free") : log[i].what = "GRSurface"
    /\ StepsOf("munmap") # {} /\ StepsOf("close") # {}

\* C6 as claimed: a commit leaves the drawing surface's bytes as they were,
\* under every build configuration and in both buffering modes.
C6_CommitKeepsDrawing ==
    Committed => drawData = log[1].drawn

SameShape(a, b) ==
    /\ a.width = b.width /\ a.height = b.height
    /\ a.row_bytes = b.row_bytes /\ a.pixel_bytes = b.pixel_bytes
    /\ a.format = b.format

\* C7: after a successful init every byte of the drawing surface is zero,
\* its width, height, stride, bytes per pixel and format equal those of
\* slot 0 (and of slot 1 when double buffered), and its pixel memory is a
\* heap allocation of one frame, not part of the mapping.
C7_DrawingSurfaceAfterInit ==
    InitSucceeded
        => /\ drawData = Zeros(FrameBytes(drawDesc))
           /\ SameShape(drawDesc, gr_framebuffer[1])
           /\ double_buffered => SameShape(drawDesc, gr_framebuffer[2])
           /\ drawDesc.data.seg = "heap" /\ gr_framebuffer[1].data.seg = "fb"
           /\ drawDesc.data.off \in DOMAIN heap
           /\ heap[drawDesc.data.off].size = FrameBytes(drawDesc)

C7_Witness ==
    /\ InitSucceeded /\ double_buffered
    /\ FrameBytes(drawDesc) = 6 /\ drawDesc.format = "RGB_565"
    /\ hist.sessions = 2

\* C8: while a session is open, what init and every commit returned is the
\* one drawing surface init allocated, and its pixel memory is the live
\* allocation init made, of unchanged size.
C8_SameSurfaceAllSession ==
    pc = "open"
        => /\ ret = hist.handle /\ gr_draw = hist.handle
           /\ gr_draw.seg = "heap" /\ gr_draw.off \in DOMAIN heap
           /\ drawDesc.data = hist.pixels
           /\ hist.pixels.off \in DOMAIN heap
           /\ heap[hist.pixels.off].size = FrameBytes(drawDesc)
           /\ Len(drawData) = FrameBytes(drawDesc)

C8_Witness ==
    /\ Committed /\ hist.commits = 2 /\ ret = hist.handle /\ ret # NULL

Reopened ==
    InitSucceeded /\ hist.sessions = 2 /\ ~hist.devChanged

\* C9 as claimed: for an unchanged device, init after shutdown reaches the
\* initial state of a fresh session: the same buffering mode, recorded
\* visible slot 0, the device driven to slot 0, an all-zero drawing surface
\* and all-zero front buffers.
C9_ReopenedLikeFresh ==
    Reopened
        => /\ hist.firstMode = (IF double_buffered THEN "double" ELSE "single")
           /\ displayed_buffer = 0
           /\ DevSlot(dev) = 0
           /\ drawData = Zeros(FrameBytes(drawDesc))
           /\ fbmem = Zeros(Len(fbmem))

\* C9 as amended: the same, except that the device is driven to slot 0
\* only if init's page-flip call succeeds; a single-buffered session leaves
\* the device where it was.
C9_ReopenedLikeFreshIfFlipOk ==
    Reopened
        => /\ hist.firstMode = (IF double_buffered THEN "double" ELSE "single")
           /\ displayed_buffer = 0
           /\ (double_buffered /\ hist.putLastOk) => DevSlot(dev) = 0
           /\ drawData = Zeros(FrameBytes(drawDesc))
           /\ fbmem = Zeros(Len(fbmem))

C9_Witness ==
    /\ Reopened /\ double_buffered
    /\ ~hist.putLastOk /\ DevSlot(dev) = 1 /\ displayed_buffer = 0

\* The decision order of the format normalizer, as a table over
\* bits-per-pixel, red offset and red length.
FormatTable(bpp, ro, rl) ==
    IF bpp = 16 THEN {"RGB_565"}
    ELSE IF ro = 8 THEN {"BGRA_8888"}
    ELSE IF ro = 0 THEN {"RGBA_8888"}
    ELSE IF ro = 24 THEN {"RGBX_8888"}
    ELSE Formats

Swapped == StepsOf("swap") # {}

\* Byte i lies in a group of four bytes that is wholly inside n bytes.
InWholeGroup(i, n) == i - ((i - 1) % 4) + 3 <= n

\* What byte i holds once byte 0 and byte 2 of its group are exchanged.
Exchanged(old, i) ==
    IF (i - 1) % 4 = 0 THEN old[i + 2]
    ELSE IF (i - 1) % 4 = 2 THEN old[i - 2]
    ELSE old[i]

\* The bytes of the front-buffer slot the last commit copied into.
Front(i) == fbmem[Copy.dstOff + i]

C12_SwapInBothModes ==
    (Committed /\ build.RECOVERY_BGRA)
        => /\ Swapped
           /\ \A i \in StepsOf("swap"), j \in StepsOf("memcpy") : i < j
           /\ Copy.dstOff + Copy.n <= Len(fbmem)
                  => \A i \in 1..Copy.n :
                         InWholeGroup(i, Copy.n)
                             => Front(i) = Exchanged(log[1].drawn, i)

\* C13 as claimed: no commit runs the swap while the drawing surface is
\* RGB_565, whether the device reports 16 bits per pixel or the build
\* forces it.
C13_NoSwapOn16Bit ==
    (Called("fbdev_flip") /\ drawDesc.format = "RGB_565") => ~Swapped

(***************************************************************************)
(* Visible-slot selection.                                                 *)
(***************************************************************************)
\* The page-flip calls (FBIOPUT_VSCREENINFO) of the last call.
Puts == StepsOf("FBIOPUT_VSCREENINFO")

PutFailed == \E i \in Puts : ~log[i].ok

\* C14 as claimed: in a single-buffered session set_displayed_framebuffer
\* issues no page-flip call and leaves vi as it was read from the device,
\* and the recorded visible slot is 0 in every state of the session, also
\* in a session opened after an earlier one was shut down.
C14_SingleBufferedSlotZero ==
    (pc = "open" /\ ~double_buffered)
        => /\ Puts = {}
           /\ vi = ProbedVi
           /\ displayed_buffer = 0

\* C15: in a double-buffered session, when the page-flip call of
\* set_displayed_framebuffer(n) fails, the call is made once and not again,
\* the recorded visible slot is n all the same, the frame a commit copied
\* into slot n stays there, and the next commit copies into slot 1 - n.
C15_FailedFlipStillAdvances ==
    /\ (pc = "open" /\ double_buffered /\ PutFailed)
           => /\ Cardinality(Puts) = 1
              /\ \A i \in Puts : displayed_buffer = log[i].n
              /\ Called("fbdev_flip")
                     => /\ Copy.slot = displayed_buffer
                        /\ \A i \in 1..Copy.n : Front(i) = drawData[i]
    /\ (Called("fbdev_flip") /\ double_buffered /\ ~Copy.synced)
           => Copy.slot = 1 - Copy.lastN

C15_Witness ==
    /\ Committed /\ double_buffered /\ hist.commits = 2
    /\ ~Copy.synced /\ Copy.lastN = 1 /\ Copy.slot = 0
    /\ PutFailed /\ displayed_buffer = 0
    /\ drawData # Zeros(Len(drawData))

(***************************************************************************)
(* The fallback of the format normalizer.                                  *)
(***************************************************************************)
\* The formats of decision cases 1 to 4: bits-per-pixel 16, red offset 8,
\* red offset 0, red offset 24.
CaseFormat == <<"RGB_565", "BGRA_8888", "RGBA_8888", "RGBX_8888">>

\* The descriptor matches none of the four cases.
FallsThrough(v) ==
    v.bits_per_pixel # 16 /\ v.red.offset \notin {8, 0, 24}

\* C16 as claimed: a descriptor that matches none of the four cases gets
\* the format of case 3 (red offset 0, RGBA_8888) when the red length is 8
\* and the format of case 1 (RGB_565) otherwise.
C16_FallbackIsCase3 ==
    (probe.phase = "out" /\ FallsThrough(EffectiveVi(probe)))
        => probe.format = IF EffectiveVi(probe).red.length = 8
                          THEN CaseFormat[3] ELSE CaseFormat[1]

\* C16 as amended: such a descriptor gets the format of case 4 (red offset
\* 24, RGBX_8888) when the red length is 8 and the format of case 1
\* (RGB_565) otherwise.
C16_FallbackIsCase4 ==
    (probe.phase = "out" /\ FallsThrough(EffectiveVi(probe)))
        => probe.format = IF EffectiveVi(probe).red.length = 8
                          THEN CaseFormat[4] ELSE CaseFormat[1]

C16_Witness ==
    /\ probe.phase = "out" /\ ~probe.rgb565
    /\ probe.vi.bits_per_pixel = 32 /\ probe.vi.red = Chan(16, 8)
    /\ probe.format = "RGBX_8888"

(***************************************************************************)
(* The two blanking mechanisms.                                            *)
(***************************************************************************)
\* The steps of the probed fbdev_blank call that are the named operation.
BlankSteps(name) == {i \in DOMAIN probe.ev : probe.ev[i].op = name}

\* The call went to the device's blank control.
ViaIoctl == BlankSteps("FBIOBLANK") # {}

\* The call went to the brightness file: it opened it, and wrote to it
\* unless the open failed.
ViaBrightness ==
    BlankSteps("open_backlight") \cup BlankSteps("write_backlight") # {}

HalfMax == probe.build.TW_MAX_BRIGHTNESS[1] \div 2

StepAt(ev) == CHOOSE i \in DOMAIN log : log[i] = ev

Releases == {EvClose, EvFree("pixels"), EvFree("GRSurface"), EvMunmap}

\* Every resource is released, by exactly one step.
ReleasedOnce ==
    \A ev \in Releases : Cardinality({i \in DOMAIN log : log[i] = ev}) = 1

\* After shutdown nothing of the session is left.
NothingHeld ==
    /\ openFds = {} /\ fb_fd = -1
    /\ ~mapped
    /\ DOMAIN heap = {} /\ gr_draw = NULL

\* C18 as claimed: fbdev_exit releases in the reverse of the order in which
\* fbdev_init acquired (device handle, mapping, descriptor, pixel memory):
\* pixel memory, descriptor, mapping, device handle; and afterwards the
\* handle is closed, the mapping unmapped and the drawing surface freed.
C18_ExitReverseOrder ==
    Called("fbdev_exit")
        => /\ ReleasedOnce
           /\ StepAt(EvFree("pixels")) < StepAt(EvFree("GRSurface"))
           /\ StepAt(EvFree("GRSurface")) < StepAt(EvMunmap)
           /\ StepAt(EvMunmap) < StepAt(EvClose)
           /\ NothingHeld

\* C18 as amended: fbdev_exit releases the device handle first, then the
\* pixel memory, then the descriptor, then the mapping; and afterwards the
\* handle is closed, the mapping unmapped and the drawing surface freed.
C18_ExitOrder ==
    Called("fbdev_exit")
        => /\ ReleasedOnce
           /\ StepAt(EvClose) < StepAt(EvFree("pixels"))
           /\ StepAt(EvFree("pixels")) < StepAt(EvFree("GRSurface"))
           /\ StepAt(EvFree("GRSurface")) < StepAt(EvMunmap)
           /\ NothingHeld

C18_Witness ==
    /\ Called("fbdev_exit") /\ hist.sessions = 2 /\ pc = "closed"
    /\ Len(log) = 5 /\ log[2] = EvClose /\ log[5] = EvMunmap
    /\ DOMAIN heap = {} /\ ~mapped

(***************************************************************************)
(* The process-wide handles outside a session.                             *)
(***************************************************************************)
\* C19 as claimed: initially, after a failed init of a fresh process and
\* after shutdown, fb_fd is -1 and gr_draw is NULL; gr_draw never names
\* freed memory and fb_fd never a closed descriptor.
C19_NoLiveStateOutsideSession ==
    /\ (pc = "closed" /\ (hist.sessions = 0 \/ Called("fbdev_exit")))
           => fb_fd = -1 /\ gr_draw = NULL
    /\ gr_draw # NULL => (gr_draw.seg = "heap" /\ gr_draw.off \in DOMAIN heap)
    /\ fb_fd # -1 => fb_fd \in openFds

(***************************************************************************)
(* Display power at the end of fbdev_init.                                 *)
(***************************************************************************)
\* The steps of the last call that act on the display's power.
PowerOps == StepsOf("FBIOBLANK") \cup StepsOf("write_backlight")

\* The steps of the last call that come before the display is touched:
\* the zeroing of the mapping and the selection of slot 0.
Preparation ==
    {i \in StepsOf("memset") : log[i].seg = "fb"}
        \cup StepsOf("set_displayed_framebuffer")
        \cup StepsOf("FBIOPUT_VSCREENINFO")

DisplayOn == ~panel.blanked /\ panel.backlight > 0

\* C20 as claimed: a successful init ends with the display output enabled;
\* its last power action is an unblank that follows a blank, both after the
\* mapping has been zeroed and slot 0 selected, and the mapping is all zero.
C20_InitEndsUnblanked ==
    InitSucceeded
        => /\ DisplayOn
           /\ \E i, j \in PowerOps :
                  /\ i < j /\ log[i].blank /\ ~log[j].blank
                  /\ \A k \in PowerOps : k <= j
           /\ \A k \in Preparation, i \in PowerOps : k < i
           /\ \E k \in StepsOf("set_displayed_framebuffer") : log[k].n = 0
           /\ fbmem = Zeros(Len(fbmem))

\* C20 as amended: a successful init ends with the calls fbdev_blank(true)
\* and fbdev_blank(false), in this order and as its last steps, both after
\* the mapping has been zeroed and set_displayed_framebuffer(0) called, and
\* the mapping is all zero when it returns.  When the unblank's system
\* call is made and succeeds, it is the last power action and leaves the
\* device unblanked, or the backlight at the level written; only a build
\* that defines TW_NO_SCREEN_BLANK makes no such call at all.
C20_InitBlanksThenUnblanks ==
    InitSucceeded
        => LET calls == StepsOf("fbdev_blank")
               last == log[Len(log)]
           IN  /\ Cardinality(calls) = 2
               /\ \E i, j \in calls : i < j /\ log[i].blank /\ ~log[j].blank
               /\ \A k \in Preparation, i \in calls : k < i
               /\ \A i \in calls, k \in DOMAIN log :
                      k > i => log[k].op \in {"fbdev_blank", "FBIOBLANK",
                                              "open_backlight", "write_backlight"}
               /\ \E k \in StepsOf("set_displayed_framebuffer") : log[k].n = 0
               /\ fbmem = Zeros(Len(fbmem))
               /\ (last.op = "FBIOBLANK" /\ last.ok)
                      => ~last.blank /\ ~panel.blanked
               /\ last.op = "write_backlight"
                      => /\ ~last.blank
                         /\ panel.backlight = ParseLevel(last.text)
                         /\ ParseLevel(last.text) =
                                build.TW_MAX_BRIGHTNESS[1] \div 2
               /\ (PowerOps = {} /\ StepsOf("open_backlight") = {})
                      => build.TW_NO_SCREEN_BLANK

C20_Witness ==
    /\ InitSucceeded /\ UsesBlankIoctl(build) /\ hist.sessions = 2
    /\ Len(log) > 4
    /\ log[Len(log) - 3] = EvBlank(TRUE) /\ log[Len(log) - 2].ok
    /\ log[Len(log) - 1] = EvBlank(FALSE)
    /\ log[Len(log)].op = "FBIOBLANK" /\ ~log[Len(log)].ok
    /\ panel.blanked

====
